---------------------------- MODULE Spec2Model ----------------------------
(***************************************************************************)
(* Upload-to-result workflow of the AI Video Sales Coach front end.        *)
(*                                                                         *)
(*   VideoUpload.js  onDrop, the simulated progress timer, useDropzone     *)
(*   toast.js        analyzeVideo (the axios client and its fallback)      *)
(*   App.js          the shared currentAnalysis slot and the routes        *)
(*   Navigation      the links that change the route at any time           *)
(*                                                                         *)
(* JavaScript is run-to-completion: a handler, or the continuation of an   *)
(* await, runs without interleaving.  The continuation of onDrop is split  *)
(* into one step per statement (the pc of a submission names the source    *)
(* line about to run) so that the intermediate values are visible, and     *)
(* every other action is disabled while a continuation is running.         *)
(*                                                                         *)
(* uploading and uploadProgress are the useState cells of the mounted      *)
(* VideoUpload instance; with no instance mounted they hold the initial    *)
(* values every new instance starts from.  A state setter called by a      *)
(* closure whose instance has been unmounted is discarded by React.        *)
(* Setters apply in call order (the update queue); the unmount caused by   *)
(* navigate() inside a continuation is committed when the continuation     *)
(* ends.                                                                   *)
(***************************************************************************)
EXTENDS Integers, Sequences, FiniteSets, TLC

\* ------------------------------------------------------------------ bounds
\* Accepted submissions over the life of the page.
MaxSubs == 2

\* Calls of getAnalysisHistory / getHealthCheck over the life of the page.
MaxApiCalls == 3

\* ------------------------------------------------------------ text helpers
\* Strings are sequences of characters so that startsWith / endsWith are
\* computed, not assumed.
StartsWith(s, p) == Len(s) >= Len(p) /\ SubSeq(s, 1, Len(p)) = p

EndsWith(s, p) == Len(s) >= Len(p) /\ SubSeq(s, Len(s) - Len(p) + 1, Len(s)) = p

VideoSlash == <<"v","i","d","e","o","/">>

\* ------------------------------------------------------------------- files
\* A File as the browser hands it over: name and MIME type (the type is the
\* empty string when the platform does not know the extension).
F_mp4 == [name |-> <<"a",".","m","p","4">>, type |-> <<"v","i","d","e","o","/","m","p","4">>]

F_ogv == [name |-> <<"d",".","o","g","v">>, type |-> <<"v","i","d","e","o","/","o","g","g">>]

F_png == [name |-> <<"b",".","p","n","g">>, type |-> <<"i","m","a","g","e","/","p","n","g">>]

F_mov == [name |-> <<"c",".","m","o","v">>, type |-> <<>>]

Files == {F_mp4, F_ogv, F_png, F_mov}

\* What one drop gesture can carry: nothing, one file, or several.
DropLists ==
  {<<>>} \cup {<<f>> : f \in Files}
         \cup {<<F_mp4, F_ogv>>, <<F_png, F_mp4>>, <<F_mov, F_mp4>>}

\* ------------------------------------------------------- useDropzone options
\* accept: { 'video/*': ['.mp4', '.avi', '.mov', '.mkv', '.webm'] }
AcceptExtensions ==
  { <<".","m","p","4">>, <<".","a","v","i">>, <<".","m","o","v">>,
    <<".","m","k","v">>, <<".","w","e","b","m">> }

maxFiles == 1

\* The accept filter: a file passes when its MIME type matches video/* or
\* its name ends with one of the listed extensions.
fileAccepted(f) ==
  \/ StartsWith(f.type, VideoSlash)
  \/ \E e \in AcceptExtensions : EndsWith(f.name, e)

\* The acceptedFiles argument of onDrop: the files that pass the filter,
\* or none at all when more than maxFiles passed.
acceptedFilesOf(files) ==
  LET ok == SelectSeq(files, fileAccepted)
  IN  IF Len(ok) > maxFiles THEN <<>> ELSE ok

\* Variant: the MIME check of line 17 is missing.
IsVideoTypeUnchecked(type) == TRUE

\* onDrop line 17: file.type.startsWith('video/')
IsVideoType(type) == StartsWith(type, VideoSlash)

\* ------------------------------------------------------- AnalysisResult data
\* JSON null, and a JSON document that is a bare string (axios hands back the
\* raw text of a body it cannot parse).
Null == [null |-> TRUE]

RawText(t) == [raw |-> t]

\* Date.now().toString() and new Date().toISOString() for the clock readings
\* the model draws from.
Times == {1, 2}

DateNowString(t) == IF t = 1 THEN "1700000000000" ELSE "1700000000200"

ISOString(t) == IF t = 1 THEN "2023-11-14T22:13:20.000Z" ELSE "2023-11-14T22:13:20.200Z"

\* The mock report of the catch branch.  Emotion scores are in hundredths
\* (0.65 is 65).
MockAnalysis ==
  [ overall_score    |-> 78,
    confidence_level |-> 82,
    engagement_score |-> 75,
    speech_clarity   |-> 80,
    body_language    |-> 76,
    emotions |-> [confident |-> 65, nervous |-> 15, enthusiastic |-> 75, professional |-> 85],
    transcript |-> "Thank you for joining me today. I'm excited to present our new product solution that will revolutionize how your team approaches sales...",
    coaching_feedback |->
      [ strengths |-> << "Strong opening with clear enthusiasm",
                         "Good eye contact maintained throughout",
                         "Professional tone and delivery",
                         "Clear articulation of key benefits" >>,
        improvements |-> << "Could reduce filler words ('um', 'uh')",
                            "Try varying vocal pace for emphasis",
                            "Consider more dynamic hand gestures",
                            "Practice smoother transitions between points" >>,
        recommendations |-> << "Practice the opening 30 seconds to build confidence",
                               "Record yourself to identify speech patterns",
                               "Use pause and emphasis techniques",
                               "Rehearse with a timer to manage pacing" >> ],
    metrics |-> [ speech_rate |-> 165, pause_frequency |-> 12, filler_words |-> 8,
                  gesture_frequency |-> 23, eye_contact_percentage |-> 78 ] ]

\* Variant: the mock names a fixed file instead of the submitted one.
MockResultFixedName(file, t) ==
  [ id         |-> DateNowString(t),
    filename   |-> <<"d","e","m","o",".","m","p","4">>,
    analysis   |-> MockAnalysis,
    created_at |-> ISOString(t) ]

MockResult(file, t) ==
  [ id         |-> DateNowString(t),
    filename   |-> file.name,
    analysis   |-> MockAnalysis,
    created_at |-> ISOString(t) ]

\* ------------------------------------------------------------ remote service
\* Response bodies the service may send with a success status.  The client
\* does not constrain them.
ServiceAnalysis ==
  [ overall_score    |-> 91,
    confidence_level |-> 88,
    engagement_score |-> 93,
    speech_clarity   |-> 90,
    body_language    |-> 85,
    emotions |-> [confident |-> 80, calm |-> 40],
    transcript |-> "Good morning everyone.",
    coaching_feedback |-> [ strengths |-> <<"Clear structure">>,
                            improvements |-> <<>>,
                            recommendations |-> <<"Slow down near the close">> ],
    metrics |-> [ speech_rate |-> 140, pause_frequency |-> 9, filler_words |-> 2,
                  gesture_frequency |-> 17, eye_contact_percentage |-> 88 ] ]

FullBody ==
  [ id         |-> "srv-42",
    filename   |-> <<"s","t","o","r","e","d",".","m","p","4">>,
    analysis   |-> ServiceAnalysis,
    created_at |-> "2024-01-01T00:00:00Z" ]

\* A well-formed JSON document without the report (a job receipt).
ReceiptBody ==
  [ id |-> "srv-43", filename |-> <<"s","t","o","r","e","d",".","m","p","4">>,
    created_at |-> "2024-01-01T00:00:05Z" ]

\* A success status whose body is not JSON.
HtmlBody == RawText("<html>ok</html>")

Bodies == {FullBody, ReceiptBody, HtmlBody}

\* How the POST can end: no response at all, or a response with a status.
Outcomes ==
  { [kind |-> "network_error", status |-> 0,   data |-> Null],
    [kind |-> "timeout",       status |-> 0,   data |-> Null],
    [kind |-> "response",      status |-> 500, data |-> RawText("Internal Server Error")] }
  \cup { [kind |-> "response", status |-> 200, data |-> b] : b \in Bodies }

\* axios: the promise of api.post fulfils only for a response whose status
\* passes validateStatus (2xx); everything else rejects.
validateStatus(status) == status >= 200 /\ status < 300

postFulfils(o) == o.kind = "response" /\ validateStatus(o.status)

\* -------------------------------------------------------------- analyzeVideo
\* Variant: the catch branch rethrows instead of returning the mock.
analyzeVideoRethrows(file, o, t) ==
  IF postFulfils(o)
  THEN [state |-> "fulfilled", value |-> o.data]
  ELSE [state |-> "rejected", value |-> Null]

\* Variant: the catch branch waits for a retry that never reports back, so
\* the promise stays pending.
analyzeVideoHangs(file, o, t) ==
  IF postFulfils(o)
  THEN [state |-> "fulfilled", value |-> o.data]
  ELSE [state |-> "pending", value |-> Null]

\* Variant: the success branch stamps the record with the client's clock.
analyzeVideoStamps(file, o, t) ==
  IF postFulfils(o)
  THEN [state |-> "fulfilled",
        value |-> IF "created_at" \in DOMAIN o.data
                  THEN [o.data EXCEPT !.created_at = ISOString(t)]
                  ELSE o.data]
  ELSE [state |-> "fulfilled", value |-> MockResult(file, t)]

\* The settlement of the promise analyzeVideo(file) returns, given how the
\* POST ended and the clock reading of the catch branch.
analyzeVideo(file, o, t) ==
  IF postFulfils(o)
  THEN [state |-> "fulfilled", value |-> o.data]
  ELSE [state |-> "fulfilled", value |-> MockResult(file, t)]

\* -------------------------------------------------------------------- state
VARIABLES
  route,            \* the router's location: which Route element is mounted
  currentAnalysis,  \* App: useState(null)
  uploading,        \* VideoUpload: useState(false)
  uploadProgress,   \* VideoUpload: useState(0)
  subs,             \* the onDrop invocations that got past validation
  lastDrop,         \* the drop gesture the last step handled, if it was one
  apiCalls          \* the calls of getAnalysisHistory and getHealthCheck

vars == <<route, currentAnalysis, uploading, uploadProgress, subs, lastDrop, apiCalls>>

Routes == {"/", "/upload", "/results"}

\* Where a suspended or running onDrop is: at the await of line 37, at the
\* statement of the named line, or returned.
Running == {"L39", "L40", "L42", "L43", "L44", "L48", "L50", "L51"}

Subs == 1..Len(subs)

\* A continuation of onDrop is on the stack.
Busy == \E s \in Subs : subs[s].pc \in Running

\* ignored: the dropzone was disabled and onDrop was not called;
\* validationError: toast.error('Please upload a video file') was raised.
NoDrop == [happened |-> FALSE, files |-> <<>>, ignored |-> FALSE, validationError |-> FALSE]

DropOf(files, ignored, validationError) ==
  [happened |-> TRUE, files |-> files, ignored |-> ignored, validationError |-> validationError]

Init ==
  /\ route \in Routes
  /\ currentAnalysis = Null
  /\ uploading = FALSE
  /\ uploadProgress = 0
  /\ subs = <<>>
  /\ lastDrop = NoDrop
  /\ apiCalls = <<>>

\* The component leaves the tree: its state cells are gone and the closures
\* it created can no longer set them.
Detached(ss) == [s \in DOMAIN ss |-> [ss[s] EXCEPT !.live = FALSE]]

\* ------------------------------------------------------------- Navigation
\* The user follows a Link (the navigation bar is always rendered).
Navigate(r) ==
  /\ ~Busy
  /\ r # route
  /\ route' = r
  /\ IF route = "/upload"
     THEN /\ subs' = Detached(subs)
          /\ uploading' = FALSE
          /\ uploadProgress' = 0
     ELSE UNCHANGED <<subs, uploading, uploadProgress>>
  /\ lastDrop' = NoDrop
  /\ UNCHANGED <<currentAnalysis, apiCalls>>

\* ----------------------------------------------------------------- onDrop
\* No response and no error yet.
NoOutcome == [kind |-> "none", status |-> 0, data |-> Null]

\* The record of a call of onDrop that reached line 22: the file, whether
\* the instance that created the closure is still mounted, whether its
\* interval is active, the POST's outcome, the promise of analyzeVideo and
\* the awaited `result`, the position, and what the call has raised so far.
NewSub(file) ==
  [ file |-> file, live |-> TRUE, timer |-> TRUE, outcome |-> NoOutcome,
    call |-> "pending", value |-> Null, pc |-> "await",
    published |-> 0, navigated |-> 0, successToasts |-> 0, failureToasts |-> 0 ]

\* A drop gesture on the upload area, up to the await of line 37.
Drop(files) ==
  /\ ~Busy
  /\ route = "/upload"
  /\ LET accepted == acceptedFilesOf(files)
     IN  IF uploading
         THEN \* disabled: uploading -- the dropzone does not call onDrop
              /\ lastDrop' = DropOf(files, TRUE, FALSE)
              /\ UNCHANGED <<subs, uploading, uploadProgress>>
         ELSE IF accepted = <<>>
         THEN \* line 15: if (!file) return
              /\ lastDrop' = DropOf(files, FALSE, FALSE)
              /\ UNCHANGED <<subs, uploading, uploadProgress>>
         ELSE IF ~IsVideoType(accepted[1].type)
         THEN \* lines 17-20: toast.error('Please upload a video file')
              /\ lastDrop' = DropOf(files, FALSE, TRUE)
              /\ UNCHANGED <<subs, uploading, uploadProgress>>
         ELSE \* lines 22-37: flags, timer, the POST is issued
              /\ Len(subs) < MaxSubs
              /\ lastDrop' = DropOf(files, FALSE, FALSE)
              /\ uploading' = TRUE
              /\ uploadProgress' = 0
              /\ subs' = Append(subs, NewSub(accepted[1]))
  /\ UNCHANGED <<route, currentAnalysis, apiCalls>>

\* ------------------------------------------------------------ progress timer
ProgressCeiling == 90

ProgressStep == 10

\* Variant: the updater wraps around at the ceiling instead of holding it.
ProgressUpdaterWraps(prev) ==
  IF prev >= ProgressCeiling
  THEN [value |-> 0, clear |-> FALSE]
  ELSE [value |-> prev + ProgressStep, clear |-> FALSE]

\* Variant: the ceiling test is off by one (prev > 90), so a tick at 90 still
\* adds a step.
ProgressUpdaterOvershoots(prev) ==
  IF prev > ProgressCeiling
  THEN [value |-> ProgressCeiling, clear |-> TRUE]
  ELSE [value |-> prev + ProgressStep, clear |-> FALSE]

\* The updater of lines 28-34: the next value, and whether it cleared the
\* interval.
ProgressUpdater(prev) ==
  IF prev >= ProgressCeiling
  THEN [value |-> ProgressCeiling, clear |-> TRUE]
  ELSE [value |-> prev + ProgressStep, clear |-> FALSE]

\* The interval of submission s fires.  The update of an unmounted instance
\* is dropped without running the updater.
Tick(s) ==
  /\ ~Busy
  /\ subs[s].timer
  /\ IF subs[s].live
     THEN LET u == ProgressUpdater(uploadProgress)
          IN  /\ uploadProgress' = u.value
              /\ subs' = [subs EXCEPT ![s].timer = ~u.clear]
     ELSE UNCHANGED <<uploadProgress, subs>>
  /\ lastDrop' = NoDrop
  /\ UNCHANGED <<route, currentAnalysis, uploading, apiCalls>>

\* ------------------------------------------------------------ the POST ends
\* The request of submission s ends with outcome o; analyzeVideo settles and
\* onDrop resumes after the await (or in its catch block).
Settle(s, o, t) ==
  /\ ~Busy
  /\ subs[s].call = "pending"
  /\ LET r == analyzeVideo(subs[s].file, o, t)
     IN  subs' = [subs EXCEPT ![s].outcome = o,
                              ![s].call  = r.state,
                              ![s].value = r.value,
                              ![s].pc    = CASE r.state = "fulfilled" -> "L39"
                                             [] r.state = "rejected"  -> "L48"
                                             [] OTHER                 -> @]
  /\ lastDrop' = NoDrop
  /\ UNCHANGED <<route, currentAnalysis, uploading, uploadProgress, apiCalls>>

\* --------------------------------------------------- onDrop after the await
\* Variant: line 43 is missing, the result is never handed over.
NextPcSkipsPublish(pc) ==
  CASE pc = "L39" -> "L40"
    [] pc = "L40" -> "L42"
    [] pc = "L42" -> "L44"
    [] pc = "L43" -> "L44"
    [] pc = "L44" -> "L50"
    [] pc = "L48" -> "L50"
    [] pc = "L50" -> "L51"
    [] pc = "L51" -> "done"

\* Variant: navigate('/results') is called before onAnalysisComplete(result).
NextPcNavigatesFirst(pc) ==
  CASE pc = "L39" -> "L40"
    [] pc = "L40" -> "L42"
    [] pc = "L42" -> "L44"
    [] pc = "L44" -> "L43"
    [] pc = "L43" -> "L50"
    [] pc = "L48" -> "L50"
    [] pc = "L50" -> "L51"
    [] pc = "L51" -> "done"

\* Control flow of lines 39-52: try body, catch, finally.
NextPc(pc) ==
  CASE pc = "L39" -> "L40"
    [] pc = "L40" -> "L42"
    [] pc = "L42" -> "L43"
    [] pc = "L43" -> "L44"
    [] pc = "L44" -> "L50"
    [] pc = "L48" -> "L50"
    [] pc = "L50" -> "L51"
    [] pc = "L51" -> "done"

\* Variant: the handler keeps a result that is already there.
onAnalysisCompleteKeepsFirst(prev, result) == IF prev = Null THEN result ELSE prev

\* onAnalysisComplete is App's setCurrentAnalysis: the new value replaces the
\* old one.
onAnalysisComplete(prev, result) == result

\* One statement of the continuation of submission s.  When onDrop returns
\* its local `result` and the response are dead; the record keeps the counts
\* only.
Resume(s) ==
  LET sub  == subs[s]
      pc   == sub.pc
      next == NextPc(pc)
      \* the re-render after the handler returns: a VideoUpload that is no
      \* longer on the route is unmounted
      commit == next = "done" /\ route # "/upload"
  IN
  /\ pc \in Running
  /\ route' = IF pc = "L44" THEN "/results" ELSE route
  /\ currentAnalysis' =
       IF pc = "L43" THEN onAnalysisComplete(currentAnalysis, sub.value) ELSE currentAnalysis
  /\ uploading' = IF commit \/ (pc = "L50" /\ sub.live) THEN FALSE ELSE uploading
  /\ uploadProgress' =
       IF commit \/ (pc = "L51" /\ sub.live) THEN 0
       ELSE IF pc = "L40" /\ sub.live THEN 100
       ELSE uploadProgress
  /\ LET stepped ==
           [subs EXCEPT
              ![s].pc            = next,
              ![s].value         = IF next = "done" THEN Null ELSE @,
              ![s].outcome       = IF next = "done" THEN NoOutcome ELSE @,
              ![s].timer         = IF pc = "L39" THEN FALSE ELSE @,
              ![s].successToasts = IF pc = "L42" THEN @ + 1 ELSE @,
              ![s].published     = IF pc = "L43" THEN @ + 1 ELSE @,
              ![s].navigated     = IF pc = "L44" THEN @ + 1 ELSE @,
              ![s].failureToasts = IF pc = "L48" THEN @ + 1 ELSE @]
     IN  subs' = IF commit THEN Detached(stepped) ELSE stepped
  /\ lastDrop' = NoDrop
  /\ UNCHANGED apiCalls

\* ------------------------------------------- history and health endpoints
\* What GET /api/v1/videos/history may answer with a success status.
HistoryBodies == { <<>>, <<FullBody>>, <<FullBody, ReceiptBody>> }

\* What GET /health may answer with a success status.
HealthBodies == { [status |-> "healthy"], [status |-> "degraded"] }

\* The body of a GET that has none: an empty list for the history endpoint, null
\* for the health endpoint.
NoData(op) == IF op = "history" THEN <<>> ELSE Null

\* How a GET can end without a usable response.
GetFailures(op) ==
  { [kind |-> "network_error", status |-> 0,   data |-> NoData(op)],
    [kind |-> "timeout",       status |-> 0,   data |-> NoData(op)],
    [kind |-> "response",      status |-> 503, data |-> NoData(op)] }

GetOutcomes(op) ==
  GetFailures(op) \cup
  { [kind |-> "response", status |-> 200, data |-> b] :
      b \in IF op = "history" THEN HistoryBodies ELSE HealthBodies }

\* The GET of a call that has not ended yet.
NoGetOutcome(op) == [kind |-> "none", status |-> 0, data |-> NoData(op)]

\* Variant: the catch branch of getAnalysisHistory rethrows.
getAnalysisHistoryRethrows(o) ==
  IF postFulfils(o)
  THEN [state |-> "fulfilled", value |-> o.data]
  ELSE [state |-> "rejected", value |-> <<>>]

\* The settlement of getAnalysisHistory() given how its GET ended.
getAnalysisHistory(o) ==
  IF postFulfils(o)
  THEN [state |-> "fulfilled", value |-> o.data]
  ELSE [state |-> "fulfilled", value |-> <<>>]

\* Variant: the status returned on failure names the kind of failure.
getHealthCheckNamesFailure(o) ==
  IF postFulfils(o)
  THEN [state |-> "fulfilled", value |-> o.data]
  ELSE [state |-> "fulfilled", value |-> [status |-> o.kind]]

\* The settlement of getHealthCheck() given how its GET ended.
getHealthCheck(o) ==
  IF postFulfils(o)
  THEN [state |-> "fulfilled", value |-> o.data]
  ELSE [state |-> "fulfilled", value |-> [status |-> "unhealthy"]]

ApiCalls == 1..Len(apiCalls)

\* Some caller invokes getAnalysisHistory(): api.get is issued (line 93).
CallHistory ==
  /\ Len(apiCalls) < MaxApiCalls
  /\ apiCalls' = Append(apiCalls,
        [op |-> "history", outcome |-> NoGetOutcome("history"),
         state |-> "pending", value |-> <<>>])
  /\ UNCHANGED <<route, currentAnalysis, uploading, uploadProgress, subs, lastDrop>>

\* Some caller invokes getHealthCheck(): api.get is issued (line 103).
CallHealth ==
  /\ Len(apiCalls) < MaxApiCalls
  /\ apiCalls' = Append(apiCalls,
        [op |-> "health", outcome |-> NoGetOutcome("health"),
         state |-> "pending", value |-> Null])
  /\ UNCHANGED <<route, currentAnalysis, uploading, uploadProgress, subs, lastDrop>>

\* The GET of call c ends with outcome o and the async function settles.
ApiSettle(c, o) ==
  /\ apiCalls[c].state = "pending"
  /\ LET r == IF apiCalls[c].op = "history"
              THEN getAnalysisHistory(o)
              ELSE getHealthCheck(o)
     IN  apiCalls' = [apiCalls EXCEPT ![c].outcome = o,
                                      ![c].state   = r.state,
                                      ![c].value   = r.value]
  /\ UNCHANGED <<route, currentAnalysis, uploading, uploadProgress, subs, lastDrop>>

ApiNext ==
  \/ CallHistory
  \/ CallHealth
  \/ \E c \in ApiCalls : \E o \in GetOutcomes(apiCalls[c].op) : ApiSettle(c, o)

\* The client functions on their own, with the upload page untouched.
ApiSpec == Init /\ [][ApiNext]_vars

\* ---------------------------------------------------------- specification
Next ==
  \/ \E r \in Routes : Navigate(r)
  \/ \E files \in DropLists : Drop(files)
  \/ \E s \in Subs : Tick(s)
  \/ \E s \in Subs, o \in Outcomes, t \in Times : Settle(s, o, t)
  \/ \E s \in Subs : Resume(s)

Spec == Init /\ [][Next]_vars

\* The request ends within the axios timeout (300000 ms), and a continuation
\* that has been scheduled runs to its end.
LiveSpec ==
  /\ Spec
  /\ WF_vars(\E s \in Subs, o \in Outcomes, t \in Times : Settle(s, o, t))
  /\ WF_vars(\E s \in Subs : Resume(s))

TypeOK ==
  /\ route \in Routes
  /\ uploading \in BOOLEAN
  /\ uploadProgress \in 0..100
  /\ Len(subs) <= MaxSubs

\* ================================================================== claims
\* A drop gesture made of files none of which has a video/ MIME type.
OnlyNonVideo(files) ==
  /\ Len(files) >= 1
  /\ \A i \in 1..Len(files) : ~StartsWith(files[i].type, VideoSlash)

\* The POST of submission s has ended without a 2xx response.
RemoteFailed(s) ==
  /\ subs[s].outcome.kind # "none"
  /\ ~(subs[s].outcome.kind = "response" /\ subs[s].outcome.status \in 200..299)

\* The POST of submission s has ended with HTTP 200.
RemoteOk(s) == subs[s].outcome.kind = "response" /\ subs[s].outcome.status = 200

\* Submission s has run line 43 and has not returned yet.
JustPublished(s) == subs[s].pc \in {"L44", "L50", "L51"}

\* ---- C1
\* C1: analyzeVideo never rejects.  Whatever the outcome of the POST, the
\* promise is fulfilled with a value, and onDrop never enters its catch
\* block because of the remote call.
C1_NeverRejects ==
  \A s \in Subs :
    /\ subs[s].call \in {"pending", "fulfilled"}
    /\ subs[s].pc # "L48"
    /\ subs[s].outcome.kind # "none" =>
         /\ subs[s].call = "fulfilled"
         /\ subs[s].value # Null

\* A call whose POST timed out has been fulfilled with the mock.
C1_Witness ==
  \E s \in Subs : \E t \in Times :
    /\ subs[s].outcome.kind = "timeout"
    /\ subs[s].call = "fulfilled"
    /\ subs[s].value = MockResult(subs[s].file, t)

\* ---- C2
\* C2: a drop of files without a video/ MIME type starts no analyzeVideo call
\* and changes neither currentAnalysis, uploading, uploadProgress nor the
\* route; and no call is ever made for a file whose type is not video/.
C2_NonVideoDropChangesNothing ==
  [][ /\ (lastDrop'.happened /\ OnlyNonVideo(lastDrop'.files)) =>
           UNCHANGED <<currentAnalysis, uploading, uploadProgress, route, subs>>
      /\ \A s \in 1..Len(subs') : StartsWith(subs'[s].file.type, VideoSlash)
    ]_vars

\* A file that passes the dropzone by its extension but has no video type was
\* dropped after a result had been published, and was turned away by onDrop.
C2_Witness ==
  /\ lastDrop.happened
  /\ lastDrop.files = <<F_mov>>
  /\ lastDrop.validationError
  /\ currentAnalysis # Null

\* ---- C3
\* C3: dropping one non-video file while the controller is idle raises the
\* error notification, keeps the controller idle and issues no request.
C3_NonVideoDropNotifies ==
  [][ ( /\ lastDrop'.happened
        /\ Len(lastDrop'.files) = 1
        /\ OnlyNonVideo(lastDrop'.files)
        /\ ~uploading )
      => ( /\ lastDrop'.validationError
           /\ ~uploading'
           /\ subs' = subs )
    ]_vars

\* ---- C4
\* Calls of onAnalysisComplete made by the first n submissions.
RECURSIVE TotalPublished(_)
TotalPublished(n) == IF n = 0 THEN 0 ELSE subs[n].published + TotalPublished(n - 1)

\* C4: a submission publishes, notifies success and navigates at most once,
\* and exactly once each by the time onDrop has returned; publications never
\* outnumber submissions.
C4_OnePublicationPerSubmission ==
  /\ \A s \in Subs :
       /\ subs[s].published <= 1
       /\ subs[s].successToasts <= 1
       /\ subs[s].navigated <= 1
       /\ subs[s].pc \in {"await", "L39", "L40", "L42", "L43"} => subs[s].published = 0
       /\ subs[s].pc = "done" =>
            /\ subs[s].published = 1
            /\ subs[s].successToasts = 1
            /\ subs[s].navigated = 1
  /\ TotalPublished(Len(subs)) <= Len(subs)

\* Two submissions have completed, each with its one publication.
C4_Witness ==
  /\ Len(subs) = 2
  /\ \A s \in Subs : subs[s].pc = "done" /\ subs[s].published = 1

\* ---- C5
\* C5: at most one analyzeVideo call is outstanding at any time.
C5_SingleInFlight ==
  Cardinality({s \in Subs : subs[s].call = "pending"}) <= 1

\* ---- C6
\* C6: the progress value of a mounted controller only goes down in the reset
\* of its own finally block (line 51), or when the controller is unmounted
\* and the value ceases to exist; no timer tick lowers it and none overwrites
\* the 100 of line 40.
C6_ProgressMonotone ==
  [][ uploadProgress' < uploadProgress =>
        \/ \E s \in Subs : subs[s].live /\ subs[s].pc = "L51"
        \/ \E s \in Subs : subs[s].live /\ ~subs'[s].live
    ]_vars

\* The call resolved between two ticks: five ticks had raised progress to 50,
\* the interval was still active and line 39 has just cleared it, and line 40
\* is about to force 100.
C6_Witness ==
  \E s \in Subs :
    /\ subs[s].live
    /\ subs[s].pc = "L40"
    /\ ~subs[s].timer
    /\ uploadProgress = 50

\* ---- C7
\* C7: progress is 100 when line 43 publishes, 0 when the controller is idle,
\* and never above 100.
C7_ProgressAtPublication ==
  /\ \A s \in Subs : subs[s].pc = "L43" => uploadProgress = 100
  /\ (~uploading /\ ~Busy) => uploadProgress = 0
  /\ uploadProgress <= 100

\* ---- C8
\* C8: when the POST fails, the controller publishes the mock carrying the
\* dropped file's name and overall_score 78, raises the success notification,
\* navigates, and raises no failure notification.
C8_FailureStillCompletes ==
  \A s \in Subs :
    RemoteFailed(s) =>
      /\ subs[s].failureToasts = 0
      /\ subs[s].pc \in {"L39", "L40", "L42", "L43", "L44", "L50", "L51"}
      /\ JustPublished(s) =>
           /\ subs[s].published = 1
           /\ subs[s].successToasts = 1
           /\ currentAnalysis.filename = subs[s].file.name
           /\ currentAnalysis.analysis.overall_score = 78
      /\ subs[s].pc \in {"L50", "L51"} =>
           /\ subs[s].navigated = 1
           /\ route = "/results"

\* A submission whose POST timed out is about to reset, with its mock in the
\* shared slot.
C8_Witness ==
  \E s \in Subs :
    /\ subs[s].outcome.kind = "timeout"
    /\ subs[s].pc = "L51"
    /\ currentAnalysis.filename = subs[s].file.name

\* ---- C9
\* C9: when the POST returns HTTP 200, the value awaited by onDrop and then
\* stored in currentAnalysis is the response body itself.
C9_BodyPublishedVerbatim ==
  \A s \in Subs :
    RemoteOk(s) =>
      /\ subs[s].value = subs[s].outcome.data
      /\ JustPublished(s) => currentAnalysis = subs[s].outcome.data

\* The full service record, with the service's id, filename and created_at,
\* is in the shared slot.
C9_Witness ==
  \E s \in Subs :
    /\ subs[s].outcome.data = FullBody
    /\ subs[s].pc = "L44"
    /\ currentAnalysis.created_at = "2024-01-01T00:00:00Z"
    /\ currentAnalysis.id = "srv-42"

\* ---- C10
PercentageFields ==
  {"overall_score", "confidence_level", "engagement_score", "speech_clarity", "body_language"}

FullyPopulated(r) ==
  /\ "analysis" \in DOMAIN r
  /\ PercentageFields \subseteq DOMAIN r.analysis
  /\ "emotions" \in DOMAIN r.analysis
  /\ DOMAIN r.analysis.emotions # {}
  /\ "coaching_feedback" \in DOMAIN r.analysis
  /\ {"strengths", "improvements", "recommendations"} \subseteq DOMAIN r.analysis.coaching_feedback

\* C10: every value held in currentAnalysis, other than the initial null, has
\* the complete report.
C10_PublishedIsFullyPopulated ==
  currentAnalysis # Null => FullyPopulated(currentAnalysis)

\* ---- C11
\* The GET of call c has ended without a 2xx response.
GetFailed(c) ==
  /\ apiCalls[c].outcome.kind # "none"
  /\ ~(apiCalls[c].outcome.kind = "response" /\ apiCalls[c].outcome.status \in 200..299)

\* C11: getAnalysisHistory never rejects; when its GET fails it resolves with
\* the empty list, and otherwise with the body of its own response, whatever
\* earlier calls returned.
C11_HistoryNeverRejects ==
  \A c \in ApiCalls :
    apiCalls[c].op = "history" =>
      /\ apiCalls[c].state \in {"pending", "fulfilled"}
      /\ apiCalls[c].outcome.kind # "none" => apiCalls[c].state = "fulfilled"
      /\ GetFailed(c) => apiCalls[c].value = <<>>
      /\ (apiCalls[c].outcome.kind # "none" /\ ~GetFailed(c)) =>
           apiCalls[c].value = apiCalls[c].outcome.data

\* A call that found the service unreachable resolved with the empty list
\* right after a call that had returned a non-empty history.
C11_Witness ==
  \E c \in ApiCalls :
    /\ c > 1
    /\ apiCalls[c - 1].op = "history"
    /\ apiCalls[c - 1].value = <<FullBody>>
    /\ apiCalls[c].op = "history"
    /\ apiCalls[c].outcome.kind = "network_error"
    /\ apiCalls[c].state = "fulfilled"
    /\ apiCalls[c].value = <<>>

\* ---- C12
\* C12: every getHealthCheck call whose GET fails resolves with
\* {status: 'unhealthy'}, so any two such calls return equal values whatever
\* the failures were and however many calls came before.
C12_HealthIdempotent ==
  /\ \A c \in ApiCalls :
       apiCalls[c].op = "health" =>
         /\ apiCalls[c].state \in {"pending", "fulfilled"}
         /\ GetFailed(c) =>
              /\ apiCalls[c].state = "fulfilled"
              /\ apiCalls[c].value = [status |-> "unhealthy"]
  /\ \A c, d \in ApiCalls :
       ( /\ apiCalls[c].op = "health" /\ GetFailed(c)
         /\ apiCalls[d].op = "health" /\ GetFailed(d) )
       => apiCalls[c].value = apiCalls[d].value

\* Three consecutive calls failed in three different ways and all resolved.
C12_Witness ==
  /\ Len(apiCalls) >= 3
  /\ \A c \in 1..3 : apiCalls[c].op = "health" /\ apiCalls[c].state = "fulfilled"
  /\ apiCalls[1].outcome.kind = "network_error"
  /\ apiCalls[2].outcome.kind = "timeout"
  /\ apiCalls[3].outcome.status = 503

\* ---- C13
\* C13: whenever the controller is not uploading, no progress interval is
\* active.
C13_NoTimerOutsideUploading ==
  ~uploading => \A s \in Subs : ~subs[s].timer

\* ---- C14
\* The response of submission s arrived but its body is not a JSON document.
MalformedBody(s) ==
  /\ subs[s].outcome.kind = "response"
  /\ "raw" \in DOMAIN subs[s].outcome.data

\* C14: for a network error, a timeout, a non-2xx status and a malformed
\* response body alike, analyzeVideo returns the placeholder, whose report is
\* the fixed demo report for every file and every kind of failure.
C14_FailuresGivePlaceholder ==
  \A s \in Subs :
    (RemoteFailed(s) \/ MalformedBody(s)) =>
      /\ subs[s].call = "fulfilled"
      /\ "analysis" \in DOMAIN subs[s].value
      /\ subs[s].value.analysis = MockAnalysis
      /\ subs[s].value.filename = subs[s].file.name

\* ---- C15
\* C15: from every state in which the controller is uploading, a state is
\* reached in which it is idle again: uploading false, progress 0 and no
\* continuation running.
C15_EventuallyIdle ==
  uploading ~> (~uploading /\ uploadProgress = 0 /\ ~Busy)

\* A submission has run to its end on the upload page and left the controller
\* idle.
C15_Witness ==
  /\ ~uploading
  /\ uploadProgress = 0
  /\ \E s \in Subs : subs[s].pc = "done" /\ subs[s].navigated = 1

\* ---- C17
\* The values the simulated progress can show before completion.
ProgressSteps == {0, 10, 20, 30, 40, 50, 60, 70, 80, 90}

\* C17: while the call of the mounted controller's submission is outstanding,
\* progress is one of 0, 10, ..., 90; a step changes it only by adding 10
\* below 90; the interval stops itself only at 90, and from then on progress
\* stays 90.
C17_CeilingHeld ==
  [][ /\ \A s \in 1..Len(subs') :
           (subs'[s].live /\ subs'[s].call = "pending") =>
             /\ uploadProgress' \in ProgressSteps
             /\ ~subs'[s].timer => uploadProgress' = 90
      /\ \A s \in Subs :
           ( /\ subs[s].live  /\ subs[s].call = "pending"
             /\ subs'[s].live /\ subs'[s].call = "pending" ) =>
             /\ \/ uploadProgress' = uploadProgress
                \/ uploadProgress < 90 /\ uploadProgress' = uploadProgress + 10
             /\ (subs[s].timer /\ uploadProgress < 90) => subs'[s].timer
             /\ ~subs[s].timer => ~subs'[s].timer
    ]_vars

\* The ceiling has been reached, the interval has stopped itself, and the call
\* is still outstanding.
C17_Witness ==
  \E s \in Subs :
    /\ subs[s].live
    /\ subs[s].call = "pending"
    /\ ~subs[s].timer
    /\ uploadProgress = 90

\* ---- C18
\* C18: currentAnalysis is null until the first publication; it changes only
\* in the step that runs line 43, and after that step it is the result of the
\* submission that published, whatever it held before.
C18_SlotWrittenOnlyByPublication ==
  [][ /\ IF \E s \in Subs : subs[s].pc = "L43"
         THEN \A s \in Subs : subs[s].pc = "L43" => currentAnalysis' = subs[s].value
         ELSE currentAnalysis' = currentAnalysis
      /\ (\A s \in Subs : subs[s].published = 0) => currentAnalysis = Null
    ]_vars

\* The second submission has just replaced the result of the first with the
\* service's record.
C18_Witness ==
  /\ Len(subs) >= 2
  /\ subs[1].pc = "done"
  /\ subs[1].published = 1
  /\ subs[2].pc = "L44"
  /\ subs[2].value = FullBody
  /\ currentAnalysis = FullBody

\* ---- C19
\* C19: within one submission the interval is cleared before anything else,
\* progress is 100 from line 40 until the reset, the result is in
\* currentAnalysis before navigate runs, navigation never precedes
\* publication, and uploading stays true until the finally block.
C19_CompletionOrder ==
  \A s \in Subs :
    /\ subs[s].navigated <= subs[s].published
    /\ subs[s].pc \in {"L40", "L42", "L43", "L44", "L50", "L51", "done"} => ~subs[s].timer
    /\ subs[s].pc \in {"await", "L39", "L40", "L42", "L43"} =>
         subs[s].published = 0 /\ subs[s].navigated = 0
    /\ subs[s].pc = "L44" =>
         /\ subs[s].published = 1
         /\ subs[s].navigated = 0
         /\ currentAnalysis = subs[s].value
    /\ subs[s].pc \in {"L50", "L51", "done"} =>
         subs[s].published = 1 /\ subs[s].navigated = 1
    /\ (subs[s].live /\ subs[s].pc \in {"L39", "L40", "L42", "L43", "L44", "L50"}) => uploading
    /\ (subs[s].live /\ subs[s].pc \in {"L42", "L43", "L44", "L50", "L51"}) => uploadProgress = 100

\* Everything but the reset has happened: published, navigated, progress
\* still 100 and uploading still true.
C19_Witness ==
  \E s \in Subs :
    /\ subs[s].live
    /\ subs[s].pc = "L50"
    /\ subs[s].published = 1
    /\ subs[s].navigated = 1
    /\ route = "/results"
    /\ uploading
    /\ uploadProgress = 100

=============================================================================
